---- MODULE Spec2Model ----
(***************************************************************************)
(* A model of the JSON Schema compiler (parser + registry + seal) and of   *)
(* the validation VM of json-schema-go.                                    *)
(*                                                                         *)
(* Strings are sequences of symbols, so that URI parsing, reference        *)
(* resolution and JSON Pointer parsing/printing are real conversions.      *)
(* Numbers are floats counted in halves (n = 3 is the float 1.5).          *)
(* Registry indices are Go's 0-based indices; the TLA+ sequence that holds *)
(* the registry is 1-based, see GetIndex.                                  *)
(***************************************************************************)
EXTENDS Integers, Sequences, FiniteSets, TLC

(***************************************************************************)
(* Decoded JSON values (the interface{} values the parser consumes).       *)
(***************************************************************************)
NoKey == [k |-> "absent"]
JStr(s) == [k |-> "string", s |-> s]
JNum(n) == [k |-> "number", n |-> n]
JArr(a) == [k |-> "array", a |-> a]
JObj(id, ref, type, items, allOf) ==
    [k |-> "object", id |-> id, ref |-> ref, type |-> type, items |-> items, allOf |-> allOf,
     pattern |-> NoKey]

\* the object with the key "pattern" added
WithPattern(obj, pattern) == [obj EXCEPT !.pattern = pattern]

(***************************************************************************)
(* net/url: a URL value and the two operations the parser uses.            *)
(***************************************************************************)
URL(scheme, host, path, fragment) ==
    [Scheme |-> scheme, Host |-> host, Path |-> path, Fragment |-> fragment]

EmptyURL == URL("", "", "", <<>>)

\* symbols a URI string is made of
OriginSyms == {"http://example.com"}
AbsPathSyms == {"/1", "/2", "/3", "/4", "/foo", "/bar", "/baz"}
RelPathSyms == {"1", "2", "3", "4"}

\* position of the first "#" of s at or after i, or 0
RECURSIVE IndexHash(_, _)
IndexHash(s, i) ==
    IF i > Len(s) THEN 0
    ELSE IF s[i] = "#" THEN i
    ELSE IndexHash(s, i + 1)

\* resolution of a one-segment relative path against the base path
ResolvePath(basePath, refPath) ==
    IF refPath \in AbsPathSyms THEN refPath ELSE "/" \o refPath

\* url.Parse: [ok, url]
UrlParse(str) ==
    LET h == IndexHash(str, 1)
        pre == IF h = 0 THEN str ELSE SubSeq(str, 1, h - 1)
        frag == IF h = 0 THEN <<>> ELSE SubSeq(str, h + 1, Len(str))
        hasOrigin == Len(pre) >= 1 /\ pre[1] \in OriginSyms
        rest == IF hasOrigin THEN Tail(pre) ELSE pre
        okPath == \/ rest = <<>>
                  \/ /\ Len(rest) = 1
                     /\ rest[1] \in AbsPathSyms \cup (IF hasOrigin THEN {} ELSE RelPathSyms)
    IN  IF okPath
        THEN [ok |-> TRUE,
              url |-> URL(IF hasOrigin THEN "http" ELSE "",
                          IF hasOrigin THEN "example.com" ELSE "",
                          IF rest = <<>> THEN "" ELSE rest[1],
                          frag)]
        ELSE [ok |-> FALSE, url |-> EmptyURL]

\* (*URL).ResolveReference
ResolveReference(base, ref) ==
    IF ref.Scheme # "" THEN ref
    ELSE IF ref.Path = ""
         THEN URL(base.Scheme, base.Host, base.Path,
                  IF ref.Fragment = <<>> THEN base.Fragment ELSE ref.Fragment)
         ELSE URL(base.Scheme, base.Host, ResolvePath(base.Path, ref.Path), ref.Fragment)

\* (*URL).Parse: parse ref, then resolve it against the receiver
UrlParseRef(base, str) ==
    LET r == UrlParse(str)
    IN  IF r.ok THEN [ok |-> TRUE, url |-> ResolveReference(base, r.url)] ELSE r

\* the fragment is left in place
StripFragmentKeep(u) == u

\* the URL with Fragment = ""
StripFragment(u) == URL(u.Scheme, u.Host, u.Path, <<>>)

(***************************************************************************)
(* github.com/ucarion/json-pointer                                         *)
(***************************************************************************)
\* the tokens of the text that follows the leading "/"
RECURSIVE SplitTokens(_)
SplitTokens(r) ==
    IF r = <<>> THEN <<"">>
    ELSE IF r[1] = "/" THEN <<"">> \o SplitTokens(Tail(r))
    ELSE IF Len(r) = 1 THEN <<r[1]>>
    ELSE <<r[1]>> \o SplitTokens(Tail(Tail(r)))

\* jsonpointer.New: [ok, Tokens]
PtrNew(str) ==
    IF str = <<>> THEN [ok |-> TRUE, Tokens |-> <<>>]
    ELSE IF str[1] # "/" THEN [ok |-> FALSE, Tokens |-> <<>>]
    ELSE [ok |-> TRUE, Tokens |-> SplitTokens(Tail(str))]

\* Ptr.String
RECURSIVE PtrString(_)
PtrString(tokens) ==
    IF tokens = <<>> THEN <<>>
    ELSE <<"/", tokens[1]>> \o PtrString(Tail(tokens))

\* strconv.FormatInt(i, 10) for the indices that occur
Digits == <<"0", "1", "2", "3", "4", "5", "6", "7", "8", "9">>
FormatInt(i) == Digits[i + 1]

(***************************************************************************)
(* parser.go: the schema node                                              *)
(***************************************************************************)
jsonTypeNull == 1
jsonTypeBoolean == 2
jsonTypeNumber == 3
jsonTypeInteger == 4
jsonTypeString == 5
jsonTypeArray == 6
jsonTypeObject == 7

schemaRefZero == [IsSet |-> FALSE, Schema |-> 0, URI |-> EmptyURL, BaseURI |-> EmptyURL, Ptr |-> <<>>]
schemaTypeZero == [IsSet |-> FALSE, IsSingle |-> FALSE, Types |-> <<>>]
schemaItemsZero == [IsSet |-> FALSE, IsSingle |-> FALSE, Schemas |-> <<>>]
schemaAllOfZero == [IsSet |-> FALSE, Schemas |-> <<>>]

\* schema{}
schemaZero ==
    [ID |-> EmptyURL, Ref |-> schemaRefZero, Type |-> schemaTypeZero,
     Items |-> schemaItemsZero, AllOf |-> schemaAllOfZero]

\* contains with the comparison inverted: true when some entry differs
RECURSIVE containsNotEqual(_, _)
containsNotEqual(t, typ) ==
    IF t.Types = <<>> THEN FALSE
    ELSE IF Head(t.Types) # typ THEN TRUE
    ELSE containsNotEqual([t EXCEPT !.Types = Tail(t.Types)], typ)

\* contains that returns after the first entry
containsFirst(t, typ) == t.Types # <<>> /\ Head(t.Types) = typ

\* schemaType.contains
RECURSIVE contains(_, _)
contains(t, typ) ==
    IF t.Types = <<>> THEN FALSE
    ELSE IF Head(t.Types) = typ THEN TRUE
    ELSE contains([t EXCEPT !.Types = Tail(t.Types)], typ)

\* parseJSONType without the default case
parseJSONTypeLax(typ) ==
    IF typ = <<"null">> THEN [err |-> "", typ |-> jsonTypeNull]
    ELSE IF typ = <<"boolean">> THEN [err |-> "", typ |-> jsonTypeBoolean]
    ELSE IF typ = <<"number">> THEN [err |-> "", typ |-> jsonTypeNumber]
    ELSE IF typ = <<"integer">> THEN [err |-> "", typ |-> jsonTypeInteger]
    ELSE IF typ = <<"string">> THEN [err |-> "", typ |-> jsonTypeString]
    ELSE IF typ = <<"array">> THEN [err |-> "", typ |-> jsonTypeArray]
    ELSE IF typ = <<"object">> THEN [err |-> "", typ |-> jsonTypeObject]
    ELSE [err |-> "", typ |-> 0]

\* parseJSONType: [err, typ]
parseJSONType(typ) ==
    IF typ = <<"null">> THEN [err |-> "", typ |-> jsonTypeNull]
    ELSE IF typ = <<"boolean">> THEN [err |-> "", typ |-> jsonTypeBoolean]
    ELSE IF typ = <<"number">> THEN [err |-> "", typ |-> jsonTypeNumber]
    ELSE IF typ = <<"integer">> THEN [err |-> "", typ |-> jsonTypeInteger]
    ELSE IF typ = <<"string">> THEN [err |-> "", typ |-> jsonTypeString]
    ELSE IF typ = <<"array">> THEN [err |-> "", typ |-> jsonTypeArray]
    ELSE IF typ = <<"object">> THEN [err |-> "", typ |-> jsonTypeObject]
    ELSE [err |-> "InvalidTypeValue", typ |-> 0]

(***************************************************************************)
(* The registry: an append-only list of (URI, schema) entries.             *)
(***************************************************************************)
\* registry.Insert: the registry after the insertion; the new node's index is
\* the old length
Insert(reg, uri, s) == Append(reg, [URI |-> uri, Schema |-> s])

\* registry.GetIndex
GetIndex(reg, index) == reg[index + 1].Schema

(***************************************************************************)
(* parser.go: the parser.  A parser value p is [registry, baseURI, tokens];*)
(* Parse returns [p, index, err] with err = "" for a nil error.            *)
(***************************************************************************)
Push(p, token) == [p EXCEPT !.tokens = Append(p.tokens, token)]

Pop(p) == [p EXCEPT !.tokens = SubSeq(p.tokens, 1, Len(p.tokens) - 1)]

\* parser.URI
URI(p) == URL(p.baseURI.Scheme, p.baseURI.Host, p.baseURI.Path, PtrString(p.tokens))

Fail(p, err) == [p |-> p, index |-> -1, err |-> err, s |-> schemaZero]

\* the $id block of Parse: [p, s, err]
ParseID(p, s, input) ==
    IF Len(p.tokens) = 0 /\ input.id # NoKey
    THEN IF input.id.k # "string" THEN [p |-> p, s |-> s, err |-> "IDNotString"]
         ELSE LET r == UrlParse(input.id.s)
              IN  IF ~r.ok THEN [p |-> p, s |-> s, err |-> "IDNotValidURI"]
                  ELSE [p |-> [p EXCEPT !.baseURI = r.url],
                        s |-> [s EXCEPT !.ID = r.url], err |-> ""]
    ELSE [p |-> p, s |-> s, err |-> ""]

\* the $ref block without s.Ref.IsSet = true
ParseRefUnset(p, s, input) ==
    IF input.ref = NoKey THEN [s |-> s, err |-> ""]
    ELSE IF input.ref.k # "string" THEN [s |-> s, err |-> "RefNotString"]
    ELSE LET r == UrlParseRef(p.baseURI, input.ref.s)
         IN  IF ~r.ok THEN [s |-> s, err |-> "InvalidURI"]
             ELSE LET ptr == PtrNew(r.url.Fragment)
                  IN  IF ~ptr.ok THEN [s |-> s, err |-> "RefFragmentNotPointer"]
                      ELSE [s |-> [s EXCEPT !.Ref = [IsSet |-> FALSE, Schema |-> 0,
                                                     URI |-> r.url,
                                                     BaseURI |-> StripFragment(r.url),
                                                     Ptr |-> ptr.Tokens]],
                            err |-> ""]

\* the $ref block without refBaseURI.Fragment = ""
ParseRefKeepFragment(p, s, input) ==
    IF input.ref = NoKey THEN [s |-> s, err |-> ""]
    ELSE IF input.ref.k # "string" THEN [s |-> s, err |-> "RefNotString"]
    ELSE LET r == UrlParseRef(p.baseURI, input.ref.s)
         IN  IF ~r.ok THEN [s |-> s, err |-> "InvalidURI"]
             ELSE LET ptr == PtrNew(r.url.Fragment)
                  IN  IF ~ptr.ok THEN [s |-> s, err |-> "RefFragmentNotPointer"]
                      ELSE [s |-> [s EXCEPT !.Ref = [IsSet |-> TRUE, Schema |-> 0,
                                                     URI |-> r.url,
                                                     BaseURI |-> r.url,
                                                     Ptr |-> ptr.Tokens]],
                            err |-> ""]

\* the $ref block of Parse: [s, err]
ParseRef(p, s, input) ==
    IF input.ref = NoKey THEN [s |-> s, err |-> ""]
    ELSE IF input.ref.k # "string" THEN [s |-> s, err |-> "RefNotString"]
    ELSE LET r == UrlParseRef(p.baseURI, input.ref.s)
         IN  IF ~r.ok THEN [s |-> s, err |-> "InvalidURI"]
             ELSE LET ptr == PtrNew(r.url.Fragment)
                  IN  IF ~ptr.ok THEN [s |-> s, err |-> "RefFragmentNotPointer"]
                      ELSE [s |-> [s EXCEPT !.Ref = [IsSet |-> TRUE, Schema |-> 0,
                                                     URI |-> r.url,
                                                     BaseURI |-> StripFragment(r.url),
                                                     Ptr |-> ptr.Tokens]],
                            err |-> ""]

\* the loop over the elements of a type array: [types, err]
RECURSIVE ParseTypeList(_, _)
ParseTypeList(typ, acc) ==
    IF typ = <<>> THEN [types |-> acc, err |-> ""]
    ELSE IF Head(typ).k # "string" THEN [types |-> acc, err |-> "InvalidTypeValue"]
    ELSE LET j == parseJSONType(Head(typ).s)
         IN  IF j.err # "" THEN [types |-> acc, err |-> j.err]
             ELSE ParseTypeList(Tail(typ), Append(acc, j.typ))

\* the type block of Parse: [s, err]
ParseType(s, input) ==
    IF input.type = NoKey THEN [s |-> s, err |-> ""]
    ELSE IF input.type.k = "string"
    THEN LET j == parseJSONType(input.type.s)
         IN  IF j.err # "" THEN [s |-> s, err |-> j.err]
             ELSE [s |-> [s EXCEPT !.Type = [IsSet |-> TRUE, IsSingle |-> TRUE,
                                             Types |-> <<j.typ>>]],
                   err |-> ""]
    ELSE IF input.type.k = "array"
    THEN LET l == ParseTypeList(input.type.a, <<>>)
         IN  IF l.err # "" THEN [s |-> s, err |-> l.err]
             ELSE [s |-> [s EXCEPT !.Type = [IsSet |-> TRUE, IsSingle |-> FALSE,
                                             Types |-> l.types]],
                   err |-> ""]
    ELSE [s |-> s, err |-> "InvalidTypeValue"]

RECURSIVE Parse(_, _)
RECURSIVE ParseList(_, _, _, _)

\* the turn of the loop that puts the element's index in front
ParseListNextFront(sub, items, i, acc) ==
    IF sub.err # "" THEN [p |-> sub.p, schemas |-> acc, err |-> sub.err]
    ELSE ParseList(Pop(sub.p), items, i + 1, <<sub.index>> \o acc)

\* the end of one turn of the loop over a schema array: sub is the result of
\* parsing element i
ParseListNext(sub, items, i, acc) ==
    IF sub.err # "" THEN [p |-> sub.p, schemas |-> acc, err |-> sub.err]
    ELSE ParseList(Pop(sub.p), items, i + 1, Append(acc, sub.index))

\* the loop over the elements of a schema array (the items tuple), with p
\* already inside the keyword: [p, schemas, err]
ParseList(p, items, i, acc) ==
    IF i >= Len(items) THEN [p |-> p, schemas |-> acc, err |-> ""]
    ELSE IF items[i + 1].k # "object"
    THEN [p |-> Push(p, FormatInt(i)), schemas |-> acc, err |-> "SchemaNotObject"]
    ELSE ParseListNext(Parse(Push(p, FormatInt(i)), items[i + 1]), items, i, acc)

\* items is one schema: sub is the result of parsing it
ItemsSingle(sub, s) ==
    IF sub.err # "" THEN [p |-> sub.p, s |-> s, err |-> sub.err]
    ELSE [p |-> Pop(sub.p),
          s |-> [s EXCEPT !.Items = [IsSet |-> TRUE, IsSingle |-> TRUE,
                                     Schemas |-> <<sub.index>>]],
          err |-> ""]

\* items is a tuple: l is the result of parsing its elements
ItemsList(l, s) ==
    IF l.err # "" THEN [p |-> l.p, s |-> s, err |-> l.err]
    ELSE [p |-> Pop(l.p),
          s |-> [s EXCEPT !.Items = [IsSet |-> TRUE, IsSingle |-> FALSE,
                                     Schemas |-> l.schemas]],
          err |-> ""]

\* the items block of Parse: [p, s, err]
ParseItems(p, s, input) ==
    IF input.items = NoKey THEN [p |-> p, s |-> s, err |-> ""]
    ELSE IF input.items.k = "object"
    THEN ItemsSingle(Parse(Push(p, "items"), input.items), s)
    ELSE IF input.items.k = "array"
    THEN ItemsList(ParseList(Push(p, "items"), input.items.a, 0, <<>>), s)
    ELSE [p |-> p, s |-> s, err |-> "SchemaNotObject"]

\* allOf is an array: l is the result of parsing its elements
AllOfList(l, s) ==
    IF l.err # "" THEN [p |-> l.p, s |-> s, err |-> l.err]
    ELSE [p |-> Pop(l.p),
          s |-> [s EXCEPT !.AllOf = [IsSet |-> TRUE, Schemas |-> l.schemas]],
          err |-> ""]

\* the allOf block of the parser: [p, s, err]
ParseAllOf(p, s, input) ==
    IF input.allOf = NoKey THEN [p |-> p, s |-> s, err |-> ""]
    ELSE IF input.allOf.k = "array"
    THEN AllOfList(ParseList(Push(p, "allOf"), input.allOf.a, 0, <<>>), s)
    ELSE [p |-> p, s |-> s, err |-> "InvalidArrayValue"]

\* the end of Parse: the node is inserted under its own URI; e is the result
\* of the last keyword block
ParseInsert(e) ==
    IF e.err # "" THEN Fail(e.p, e.err)
    ELSE [p |-> [e.p EXCEPT !.registry = Insert(e.p.registry, URI(e.p), e.s)],
          index |-> Len(e.p.registry),
          err |-> "",
          s |-> e.s]

\* Parse from the allOf block on; d is the result of the items block
ParseFromAllOf(d, input) ==
    IF d.err # "" THEN Fail(d.p, d.err)
    ELSE ParseInsert(ParseAllOf(d.p, d.s, input))

\* Parse from the items block on; c is the result of the type block
ParseFromItems(p, c, input) ==
    IF c.err # "" THEN Fail(p, c.err)
    ELSE ParseFromAllOf(ParseItems(p, c.s, input), input)

\* Parse from the type block on; b is the result of the $ref block
ParseFromType(p, b, input) ==
    IF b.err # "" THEN Fail(p, b.err)
    ELSE ParseFromItems(p, ParseType(b.s, input), input)

\* Parse from the $ref block on; a is the result of the $id block
ParseFromRef(a, input) ==
    IF a.err # "" THEN Fail(a.p, a.err)
    ELSE ParseFromType(a.p, ParseRef(a.p, a.s, input), input)

\* parser.Parse
Parse(p, input) == ParseFromRef(ParseID(p, schemaZero, input), input)

\* parseSubSchema: a fresh parser over the shared registry; [registry, schema, err]
parseSubSchema(registry, baseURI, tokens, input) ==
    LET r == Parse([registry |-> registry, baseURI |-> baseURI, tokens |-> tokens], input)
    IN  IF r.err # "" THEN [registry |-> r.p.registry, schema |-> schemaZero, err |-> r.err]
        ELSE [registry |-> r.p.registry, schema |-> GetIndex(r.p.registry, r.index),
              err |-> ""]

\* parseRootSchema
parseRootSchema(registry, input) == parseSubSchema(registry, EmptyURL, <<>>, input)

(***************************************************************************)
(* The compile step (NewValidatorWithConfig): every document is parsed in  *)
(* order into one registry, then the registry is sealed.                   *)
(***************************************************************************)
\* index of the node registered under uri (the last one inserted), or -1
RECURSIVE LookupFrom(_, _, _)
LookupFrom(reg, uri, i) ==
    IF i = 0 THEN -1
    ELSE IF reg[i].URI = uri THEN i - 1
    ELSE LookupFrom(reg, uri, i - 1)

Lookup(reg, uri) == LookupFrom(reg, uri, Len(reg))

\* the seal pass over the nodes i, i+1, ... in insertion order:
\* [registry, missing]
RECURSIVE SealFrom(_, _, _)
SealFrom(reg, i, missing) ==
    IF i > Len(reg) THEN [registry |-> reg, missing |-> missing]
    ELSE LET ref == reg[i].Schema.Ref
             target == Lookup(reg, ref.BaseURI)
         IN  IF ~ref.IsSet THEN SealFrom(reg, i + 1, missing)
             ELSE IF target = -1 THEN SealFrom(reg, i + 1, Append(missing, ref.BaseURI))
             ELSE SealFrom([reg EXCEPT ![i].Schema.Ref.Schema = target], i + 1, missing)

SealRegistry(reg) == SealFrom(reg, 1, <<>>)

(***************************************************************************)
(* Instances (decoded JSON data).  n counts halves: n = 3 is 1.5.          *)
(***************************************************************************)
Inst(k, n, a) == [k |-> k, n |-> n, a |-> a]
INull == Inst("null", 0, <<>>)
ITrue == Inst("bool", 1, <<>>)
INum(n) == Inst("number", n, <<>>)
IStr == Inst("string", 0, <<>>)
IArr(a) == Inst("array", 0, a)
IObj == Inst("object", 0, <<>>)

\* math.Round on halves: to the nearest integer, halves away from zero
Round(n) ==
    IF n >= 0 THEN ((n + 1) \div 2) * 2
    ELSE -((((-n) + 1) \div 2) * 2)

\* math.Trunc on halves: toward zero
Trunc(n) ==
    IF n >= 0 THEN (n \div 2) * 2
    ELSE -(((-n) \div 2) * 2)

\* assertSimpleType of the boolean validator (IsValid)
assertSimpleType(simpleType, data) ==
    CASE simpleType = "integer" -> data.k = "number" /\ data.n = Trunc(data.n)
      [] simpleType = "number" -> data.k = "number"
      [] simpleType = "string" -> data.k = "string"
      [] simpleType = "object" -> data.k = "object"
      [] simpleType = "array" -> data.k = "array"
      [] simpleType = "boolean" -> data.k = "bool"
      [] simpleType = "null" -> data.k = "null"
      [] OTHER -> TRUE

\* regexp.Compile on the patterns that occur: a pattern of literal symbols
\* compiles, a pattern with a bracket that is never closed does not
regexpCompile(pattern) ==
    [ok |-> \A i \in 1..Len(pattern) : pattern[i] # "[", re |-> pattern]

\* the text of a string instance: the one string that occurs is "x"
TextOf(data) == <<"x">>

\* Regexp.MatchString for a pattern of literal symbols: it occurs in str
MatchString(re, str) ==
    \E i \in 0..(Len(str) - Len(re)) : SubSeq(str, i + 1, i + Len(re)) = re

\* Validator.IsValid, pattern: "panic", or does the data pass
isValidPattern(document, data) ==
    IF document.pattern.k = "string" /\ data.k = "string"
    THEN LET compiled == regexpCompile(document.pattern.s)
         IN  IF ~compiled.ok THEN "panic"
             ELSE IF ~MatchString(compiled.re, TextOf(data)) THEN "false"
             ELSE "true"
    ELSE "true"

\* Validator.IsValid, type: does the data pass
isValidType(document, data) ==
    IF document.type.k = "absent" THEN TRUE
    ELSE IF document.type.k = "string"
    THEN assertSimpleType(document.type.s[1], data)
    ELSE LET allFailed == \A i \in 1..Len(document.type.a) :
                              ~assertSimpleType(document.type.a[i].s[1], data)
         IN  ~allFailed

(***************************************************************************)
(* vm.go: the validation VM                                                *)
(***************************************************************************)
VARIABLES
    schemas,      \* the documents given to the compile step
    config,       \* ValidatorConfig: [MaxErrors, MaxStackDepth]
    build,        \* "parsing", "failed" or "sealed"
    next,         \* number of documents parsed so far
    roots,        \* index of the root node of every parsed document
    registry,     \* the registry the parser inserts into
    buildErr,     \* the error of the compile step, "" for nil
    missingURIs,  \* the URIs carried by the seal error
    vmState,      \* "idle", "running", "done", or "returned" (from IsValid)
    reqURI,       \* the URI of the running validation call
    reqInstance,  \* the instance of the running validation call
    frames,       \* the Go call stack of execSchema
    stack,        \* vm.stack: [instance, schemas]
    errors,       \* vm.errors
    vmErr,        \* the error the validation call returns, "" for nil
    prev,         \* the result of the first of two calls in a row, kept by the caller
    valid         \* what IsValid returned: "true", "false" or "panic"; "" before

vars == <<schemas, config, build, next, roots, registry, buildErr, missingURIs,
          vmState, reqURI, reqInstance, frames, stack, errors, vmErr, prev, valid>>

buildVars == <<schemas, config, build, next, roots, registry, buildErr, missingURIs>>

\* what the caller of the validator holds
callerVars == <<prev, valid>>

\* no first call to compare with
NoResult == [set |-> FALSE, errors |-> <<>>, err |-> ""]

\* vm.pushNewSchema
pushNewSchema(st, id, tokens) ==
    [st EXCEPT !.schemas = Append(st.schemas, [id |-> id, tokens |-> tokens])]

\* leaving a schema entered through $ref
popSchema(st) ==
    [st EXCEPT !.schemas = SubSeq(st.schemas, 1, Len(st.schemas) - 1)]

\* vm.pushSchemaToken
pushSchemaToken(st, token) ==
    [st EXCEPT !.schemas[Len(st.schemas)].tokens = Append(@, token)]

\* vm.popSchemaToken: s is a copy of the top schemaStack, so the shortened
\* token slice is assigned to the copy and vm.stack is left as it was
popSchemaToken(st) ==
    LET s == st.schemas[Len(st.schemas)]
        shortened == [s EXCEPT !.tokens = SubSeq(s.tokens, 1, Len(s.tokens) - 1)]
    IN  st

\* vm.pushInstanceToken
pushInstanceToken(st, token) == [st EXCEPT !.instance = Append(st.instance, token)]

\* vm.popInstanceToken
popInstanceToken(st) ==
    [st EXCEPT !.instance = SubSeq(st.instance, 1, Len(st.instance) - 1)]

\* reportError that drops the result of append
reportErrorDropped(st, errs) == errs

\* reportError that appends the error twice
reportErrorTwice(st, errs) ==
    LET schemaStack == st.schemas[Len(st.schemas)]
        e == [InstancePath |-> st.instance,
              SchemaPath |-> schemaStack.tokens,
              URI |-> schemaStack.id]
    IN  Append(Append(errs, e), e)

\* vm.reportError: the error list after the report
reportError(st, errs) ==
    LET schemaStack == st.schemas[Len(st.schemas)]
    IN  Append(errs, [InstancePath |-> st.instance,
                      SchemaPath |-> schemaStack.tokens,
                      URI |-> schemaStack.id])

\* the type switch without the comparison with math.Round
typeFailsNoRound(schema, instance) ==
    CASE instance.k = "null" -> ~contains(schema.Type, jsonTypeNull)
      [] instance.k = "bool" -> ~contains(schema.Type, jsonTypeBoolean)
      [] instance.k = "number" ->
            LET typeOk == contains(schema.Type, jsonTypeInteger)
            IN  ~typeOk /\ ~contains(schema.Type, jsonTypeNumber)
      [] instance.k = "string" -> ~contains(schema.Type, jsonTypeString)
      [] instance.k = "array" -> ~contains(schema.Type, jsonTypeArray)
      [] instance.k = "object" -> ~contains(schema.Type, jsonTypeObject)
      [] OTHER -> TRUE

\* the type switch of vm.execSchema: does the instance fail the type check
typeFails(schema, instance) ==
    CASE instance.k = "null" -> ~contains(schema.Type, jsonTypeNull)
      [] instance.k = "bool" -> ~contains(schema.Type, jsonTypeBoolean)
      [] instance.k = "number" ->
            LET typeOk == IF contains(schema.Type, jsonTypeInteger)
                          THEN instance.n = Round(instance.n)
                          ELSE FALSE
            IN  ~typeOk /\ ~contains(schema.Type, jsonTypeNumber)
      [] instance.k = "string" -> ~contains(schema.Type, jsonTypeString)
      [] instance.k = "array" -> ~contains(schema.Type, jsonTypeArray)
      [] instance.k = "object" -> ~contains(schema.Type, jsonTypeObject)
      [] OTHER -> TRUE

(***************************************************************************)
(* The inputs: documents, configurations, URIs and instances.              *)
(***************************************************************************)
MaxErrorsBound == 2
MaxStackDepthBound == 3

\* the MaxErrors of the default configuration: effectively unbounded
DefaultMaxErrors == 1000

Str1(sym) == JStr(<<sym>>)
Ex(path) == <<"http://example.com", path>>

Leaf(ref, type) == JObj(NoKey, ref, type, NoKey, NoKey)
Doc(id, ref, type, items, allOf) == JObj(id, ref, type, items, allOf)

LEmpty == Leaf(NoKey, NoKey)
LNull == Leaf(NoKey, Str1("null"))
LInteger == Leaf(NoKey, Str1("integer"))
LNullInteger == Leaf(NoKey, JArr(<<Str1("null"), Str1("integer")>>))
LSelf == Leaf(JStr(<<"#">>), NoKey)
LRef(path) == Leaf(JStr(Ex(path)), NoKey)
LRefFragment == Leaf(JStr(Ex("/4") \o <<"#", "/", "fragment">>), NoKey)

\* documents that parse
GoodDocs ==
    { LEmpty, LNull, LInteger, LNullInteger, LSelf, LRef("/1"),
      Leaf(NoKey, Str1("number")),
      Leaf(NoKey, JArr(<<Str1("integer"), Str1("string")>>)),
      Leaf(NoKey, JArr(<<>>)),
      Leaf(JStr(<<"#">>), Str1("null")),
      Doc(JStr(Ex("/foo")), NoKey, Str1("null"), NoKey, NoKey),
      Doc(JStr(Ex("/bar")), NoKey, Str1("integer"), NoKey, NoKey),
      Doc(JStr(Ex("/1")), NoKey, Str1("integer"), NoKey, NoKey),
      Doc(JStr(Ex("/1")), JStr(<<"#">>), NoKey, NoKey, NoKey),
      Doc(JStr(Ex("/foo")), JStr(<<"1">>), NoKey, NoKey, NoKey),
      Doc(NoKey, NoKey, NoKey, LNull, NoKey),
      Doc(NoKey, NoKey, Str1("array"), LInteger, NoKey),
      Doc(NoKey, NoKey, NoKey, JArr(<<>>), NoKey),
      Doc(NoKey, NoKey, NoKey, JArr(<<LNull, LInteger>>), NoKey),
      Doc(NoKey, NoKey, NoKey, JArr(<<LRef("/1")>>), NoKey),
      Doc(JStr(Ex("/foo")), NoKey, NoKey,
          Doc(JStr(<<"/bar">>), JStr(<<"1">>), Str1("null"), NoKey, NoKey), NoKey),
      Doc(JStr(Ex("/foo")), NoKey, NoKey,
          Doc(JStr(<<"/bar">>), JStr(<<"#">>), NoKey, NoKey, NoKey), NoKey),
      Doc(NoKey, JStr(Ex("/1")), NoKey, JArr(<<LRef("/2"), LRef("/3"), LRefFragment>>), NoKey),
      Doc(NoKey, NoKey, NoKey, NoKey, JArr(<<LNull, LSelf>>)),
      Doc(NoKey, NoKey, Str1("boolean"), NoKey, JArr(<<LNull, LSelf>>)),
      Doc(NoKey, NoKey, NoKey, NoKey, JArr(<<LInteger, LNull>>)) }

\* documents with a malformed keyword value
BadDocs ==
    { Leaf(NoKey, JNum(3)),
      Leaf(NoKey, Str1("invalid")),
      Leaf(NoKey, JArr(<<Str1("null"), JNum(3)>>)),
      Leaf(NoKey, JArr(<<Str1("null"), Str1("invalid")>>)),
      Leaf(NoKey, LNull),
      Leaf(JNum(3), NoKey),
      Leaf(JStr(<<"#", "fragment">>), NoKey),
      Leaf(JStr(<<"%">>), NoKey),
      Doc(JNum(3), NoKey, NoKey, NoKey, NoKey),
      Doc(JStr(<<"%">>), NoKey, NoKey, NoKey, NoKey),
      Doc(NoKey, NoKey, NoKey, Str1("foo"), NoKey),
      Doc(NoKey, NoKey, NoKey, JArr(<<Str1("foo")>>), NoKey),
      Doc(NoKey, NoKey, NoKey, JArr(<<LEmpty, Str1("foo")>>), NoKey),
      Doc(NoKey, NoKey, NoKey, JArr(<<LNull, Leaf(NoKey, JNum(3))>>), NoKey),
      Doc(NoKey, NoKey, NoKey, Leaf(NoKey, Str1("invalid")), NoKey),
      Doc(NoKey, NoKey, NoKey, Doc(NoKey, NoKey, NoKey, JArr(<<LNull, JNum(3)>>), NoKey), NoKey),
      Doc(NoKey, NoKey, NoKey, NoKey, Str1("foo")),
      Doc(NoKey, NoKey, NoKey, NoKey, JArr(<<LNull, Str1("foo")>>)),
      Doc(NoKey, NoKey, JNum(3), JArr(<<LNull>>), NoKey) }

\* documents with the keyword pattern
PatternDocs ==
    { WithPattern(LEmpty, Str1("x")),
      WithPattern(Leaf(NoKey, Str1("string")), Str1("y")),
      WithPattern(LEmpty, JStr(<<"[", "[", "[">>)),
      WithPattern(LEmpty, JNum(3)) }

Docs == GoodDocs \cup BadDocs \cup PatternDocs

\* the second document of a two-document compile
Partners ==
    { Doc(JStr(Ex("/1")), NoKey, Str1("integer"), NoKey, NoKey),
      Doc(JStr(Ex("/foo")), NoKey, Str1("null"), NoKey, NoKey),
      Doc(NoKey, NoKey, NoKey, JArr(<<LEmpty, Str1("foo")>>), NoKey) }

\* two documents of one build that both parse have distinct root URIs
Compatible(l) == l[1].id # l[2].id \/ l[1] \notin GoodDocs \/ l[2] \notin GoodDocs

DocPairs == (Docs \X Partners) \cup (Partners \X GoodDocs)

DocLists == { <<d>> : d \in Docs } \cup { l \in DocPairs : Compatible(l) }

Configs ==
    [MaxErrors : (1..MaxErrorsBound) \cup {DefaultMaxErrors},
     MaxStackDepth : 1..MaxStackDepthBound]

URIInputs ==
    { EmptyURL,
      URL("http", "example.com", "/foo", <<>>),
      URL("http", "example.com", "/bar", <<>>),
      URL("http", "example.com", "/baz", <<>>),
      URL("http", "example.com", "/1", <<"/", "items">>),
      URL("", "", "", <<"/", "items">>),
      URL("http", "example.com", "/foo", <<"items">>) }

Scalars == { INull, ITrue, INum(0), INum(2), INum(3), INum(-2), INum(-3), IStr, IObj }

Instances ==
    Scalars \cup { IArr(<<>>), IArr(<<INull, INum(2)>>), IArr(<<INum(3), INum(2)>>) }

(***************************************************************************)
(* The state machine                                                       *)
(***************************************************************************)
emptyStack == [instance |-> <<>>, schemas |-> <<>>]

Init ==
    /\ schemas \in DocLists
    /\ config \in Configs
    /\ build = "parsing"
    /\ next = 0
    /\ roots = <<>>
    /\ registry = <<>>
    /\ buildErr = ""
    /\ missingURIs = <<>>
    /\ vmState = "idle"
    /\ reqURI = EmptyURL
    /\ reqInstance = INull
    /\ frames = <<>>
    /\ stack = emptyStack
    /\ errors = <<>>
    /\ vmErr = ""
    /\ prev = NoResult
    /\ valid = ""

vmVars == <<vmState, reqURI, reqInstance, frames, stack, errors, vmErr, prev, valid>>

\* one iteration of the compile loop: parse the next document; the first
\* error ends the compile
ParseDocument ==
    /\ build = "parsing"
    /\ next < Len(schemas)
    /\ LET r == parseRootSchema(registry, schemas[next + 1])
       IN  /\ registry' = r.registry
           /\ next' = next + 1
           /\ IF r.err # ""
              THEN /\ build' = "failed"
                   /\ buildErr' = r.err
                   /\ roots' = roots
              ELSE /\ build' = build
                   /\ buildErr' = buildErr
                   /\ roots' = Append(roots, Len(r.registry) - 1)
    /\ UNCHANGED <<schemas, config, missingURIs>>
    /\ UNCHANGED vmVars

\* the seal pass, once every document is parsed
Seal ==
    /\ build = "parsing"
    /\ next = Len(schemas)
    /\ LET r == SealRegistry(registry)
       IN  /\ registry' = r.registry
           /\ missingURIs' = r.missing
           /\ IF r.missing # <<>>
              THEN build' = "failed" /\ buildErr' = "MissingURIs"
              ELSE build' = "sealed" /\ buildErr' = buildErr
    /\ UNCHANGED <<schemas, config, next, roots>>
    /\ UNCHANGED vmVars

\* a call of execSchema: the schema node, the instance, the position in the
\* function body and the loop counter
Frame(schema, instance) == [schema |-> schema, instance |-> instance, pc |-> "ref", i |-> 0]

Top == frames[Len(frames)]
TopSchema == GetIndex(registry, Top.schema)
Running(pc) == vmState = "running" /\ frames # <<>> /\ Top.pc = pc

SetTop(pc, i) == [frames EXCEPT ![Len(frames)].pc = pc, ![Len(frames)].i = i]

\* the call ends and returns err to the caller of the validation
Finish(err) ==
    /\ vmState' = "done"
    /\ frames' = <<>>
    /\ vmErr' = err

\* the error cap: the list has reached MaxErrors entries
capReached(errs) == Len(errs) = config.MaxErrors

\* the depth ceiling: no further schema may be opened
depthReached(st) == Len(st.schemas) >= config.MaxStackDepth

\* the vm of the previous call, used again
vmKept == [stack |-> stack, errors |-> errors]

\* the vm a validation call runs on: a new one for every call
vmNew == [stack |-> emptyStack, errors |-> <<>>]

\* vm.exec, on the vm of the call
Exec(uri, instance) ==
    LET absoluteURI == StripFragment(uri)
        index == Lookup(registry, absoluteURI)
        fragPtr == PtrNew(uri.Fragment)
    IN  /\ reqURI' = uri
        /\ reqInstance' = instance
        /\ errors' = vmNew.errors
        /\ valid' = ""
        /\ IF index = -1
           THEN /\ Finish("ErrNoSuchSchema")
                /\ stack' = vmNew.stack
           ELSE IF ~fragPtr.ok
           THEN /\ Finish("ErrInvalidPointer")
                /\ stack' = vmNew.stack
           ELSE /\ stack' = pushNewSchema(vmNew.stack, absoluteURI, fragPtr.Tokens)
                /\ frames' = <<Frame(index, instance)>>
                /\ vmState' = "running"
                /\ vmErr' = ""

\* Validator.ValidateURI
ValidateURI ==
    /\ build = "sealed"
    /\ vmState = "idle"
    /\ \E uri \in URIInputs, instance \in Instances : Exec(uri, instance)
    /\ UNCHANGED prev
    /\ UNCHANGED buildVars

\* Validator.Validate: the instance against the first document
Validate ==
    /\ build = "sealed"
    /\ vmState = "idle"
    /\ \E instance \in Instances : Exec(registry[roots[1] + 1].URI, instance)
    /\ UNCHANGED prev
    /\ UNCHANGED buildVars

\* the caller keeps the result and validates the same instance against the
\* same schema once more
Repeat ==
    /\ vmState = "done"
    /\ ~prev.set
    /\ prev' = [set |-> TRUE, errors |-> errors, err |-> vmErr]
    /\ Exec(reqURI, reqInstance)
    /\ UNCHANGED buildVars

\* Validator.IsValid of the boolean validator, on the first document of a
\* build that succeeded; Document.Pattern is a *string
IsValid ==
    /\ build = "sealed"
    /\ vmState = "idle"
    /\ schemas[1].pattern.k \in {"absent", "string"}
    /\ \E data \in Instances :
          /\ reqInstance' = data
          /\ valid' = LET document == schemas[1]
                          pattern == isValidPattern(document, data)
                      IN  IF pattern # "true" THEN pattern
                          ELSE IF ~isValidType(document, data) THEN "false"
                          ELSE "true"
    /\ vmState' = "returned"
    /\ UNCHANGED <<reqURI, frames, stack, errors, vmErr, prev>>
    /\ UNCHANGED buildVars

\* execSchema, $ref: enter the target schema unless the depth ceiling is hit
StepRef ==
    /\ Running("ref")
    /\ LET ref == TopSchema.Ref
       IN  IF ~ref.IsSet
           THEN /\ frames' = SetTop("type", 0)
                /\ UNCHANGED <<vmState, stack, vmErr>>
           ELSE IF depthReached(stack)
           THEN /\ Finish("ErrStackOverflow")
                /\ UNCHANGED stack
           ELSE /\ stack' = pushNewSchema(stack, ref.BaseURI, <<>>)
                /\ frames' = Append(SetTop("refRet", 0), Frame(ref.Schema, Top.instance))
                /\ UNCHANGED <<vmState, vmErr>>
    /\ UNCHANGED <<reqURI, reqInstance, errors>>
    /\ UNCHANGED buildVars
    /\ UNCHANGED callerVars

\* execSchema, $ref: back from the target schema
StepRefRet ==
    /\ Running("refRet")
    /\ stack' = popSchema(stack)
    /\ frames' = SetTop("type", 0)
    /\ UNCHANGED <<vmState, reqURI, reqInstance, errors, vmErr>>
    /\ UNCHANGED buildVars
    /\ UNCHANGED callerVars

\* execSchema, the type switch
StepType ==
    /\ Running("type")
    /\ IF typeFails(TopSchema, Top.instance)
       THEN LET pushed == pushSchemaToken(stack, "type")
            IN  /\ errors' = reportError(pushed, errors)
                /\ stack' = popSchemaToken(pushed)
                /\ IF capReached(errors')
                   THEN Finish("")
                   ELSE /\ frames' = SetTop("items", 0)
                        /\ UNCHANGED <<vmState, vmErr>>
       ELSE /\ frames' = SetTop("items", 0)
            /\ UNCHANGED <<vmState, stack, errors, vmErr>>
    /\ UNCHANGED <<reqURI, reqInstance>>
    /\ UNCHANGED buildVars
    /\ UNCHANGED callerVars

\* number of elements the items loop visits
itemsCount(schema, instance) ==
    IF schema.Items.IsSingle THEN Len(instance.a)
    ELSE IF Len(schema.Items.Schemas) < Len(instance.a) THEN Len(schema.Items.Schemas)
    ELSE Len(instance.a)

\* execSchema, items: one turn of the loop over the elements (i = 0 enters
\* the keyword), or the exit from it
StepItems ==
    /\ Running("items")
    /\ IF Top.instance.k = "array" /\ TopSchema.Items.IsSet
       THEN LET st0 == IF Top.i = 0 THEN pushSchemaToken(stack, "items") ELSE stack
                token == FormatInt(Top.i)
                st1 == pushInstanceToken(st0, token)
            IN  IF Top.i < itemsCount(TopSchema, Top.instance)
                THEN /\ stack' = IF TopSchema.Items.IsSingle THEN st1
                                 ELSE pushSchemaToken(st1, token)
                     /\ frames' =
                            Append(SetTop("itemsRet", Top.i),
                                   Frame(IF TopSchema.Items.IsSingle
                                         THEN TopSchema.Items.Schemas[1]
                                         ELSE TopSchema.Items.Schemas[Top.i + 1],
                                         Top.instance.a[Top.i + 1]))
                ELSE /\ stack' = popSchemaToken(st0)
                     /\ frames' = SetTop("allOf", 0)
       ELSE /\ frames' = SetTop("allOf", 0)
            /\ UNCHANGED stack
    /\ UNCHANGED <<vmState, reqURI, reqInstance, errors, vmErr>>
    /\ UNCHANGED buildVars
    /\ UNCHANGED callerVars

\* execSchema, items: back from an element
StepItemsRet ==
    /\ Running("itemsRet")
    /\ stack' = IF TopSchema.Items.IsSingle THEN popInstanceToken(stack)
                ELSE popSchemaToken(popInstanceToken(stack))
    /\ frames' = SetTop("items", Top.i + 1)
    /\ UNCHANGED <<vmState, reqURI, reqInstance, errors, vmErr>>
    /\ UNCHANGED buildVars
    /\ UNCHANGED callerVars

\* execSchema, allOf: one turn of the loop over the members, or the exit
StepAllOf ==
    /\ Running("allOf")
    /\ IF TopSchema.AllOf.IsSet
       THEN LET st0 == IF Top.i = 0 THEN pushSchemaToken(stack, "allOf") ELSE stack
            IN  IF Top.i < Len(TopSchema.AllOf.Schemas)
                THEN /\ stack' = pushSchemaToken(st0, FormatInt(Top.i))
                     /\ frames' = Append(SetTop("allOfRet", Top.i),
                                         Frame(TopSchema.AllOf.Schemas[Top.i + 1], Top.instance))
                ELSE /\ stack' = popSchemaToken(st0)
                     /\ frames' = SetTop("return", 0)
       ELSE /\ frames' = SetTop("return", 0)
            /\ UNCHANGED stack
    /\ UNCHANGED <<vmState, reqURI, reqInstance, errors, vmErr>>
    /\ UNCHANGED buildVars
    /\ UNCHANGED callerVars

\* execSchema, allOf: back from a member
StepAllOfRet ==
    /\ Running("allOfRet")
    /\ stack' = popSchemaToken(stack)
    /\ frames' = SetTop("allOf", Top.i + 1)
    /\ UNCHANGED <<vmState, reqURI, reqInstance, errors, vmErr>>
    /\ UNCHANGED buildVars
    /\ UNCHANGED callerVars

\* execSchema returns nil; the outermost return ends the call
StepReturn ==
    /\ Running("return")
    /\ IF Len(frames) = 1
       THEN Finish("")
       ELSE /\ frames' = SubSeq(frames, 1, Len(frames) - 1)
            /\ UNCHANGED <<vmState, vmErr>>
    /\ UNCHANGED <<reqURI, reqInstance, stack, errors>>
    /\ UNCHANGED buildVars
    /\ UNCHANGED callerVars

\* the call has returned to its caller: its vm is dropped, the next call
\* gets a new one
Discard ==
    /\ vmState \in {"done", "returned"}
    /\ vmState' = "idle"
    /\ reqURI' = EmptyURL
    /\ reqInstance' = INull
    /\ frames' = <<>>
    /\ stack' = emptyStack
    /\ errors' = <<>>
    /\ vmErr' = ""
    /\ prev' = NoResult
    /\ valid' = ""
    /\ UNCHANGED buildVars

Next ==
    \/ ParseDocument
    \/ Seal
    \/ ValidateURI
    \/ Validate
    \/ Repeat
    \/ IsValid
    \/ StepRef
    \/ StepRefRet
    \/ StepType
    \/ StepItems
    \/ StepItemsRet
    \/ StepAllOf
    \/ StepAllOfRet
    \/ StepReturn
    \/ Discard

Spec == Init /\ [][Next]_vars

\* the scheduling of a call: a running call always takes its next step
FairSpec == Spec /\ WF_vars(StepRef \/ StepRefRet \/ StepType \/ StepItems
                            \/ StepItemsRet \/ StepAllOf \/ StepAllOfRet \/ StepReturn)

TypeOK ==
    /\ build \in {"parsing", "failed", "sealed"}
    /\ vmState \in {"idle", "running", "done", "returned"}
    /\ valid \in {"", "true", "false", "panic"}
    /\ valid # "" <=> vmState = "returned"
    /\ prev.set => vmState \in {"running", "done"}
    /\ next \in 0..Len(schemas)
    /\ Len(roots) <= next

(***************************************************************************)
(* What the properties talk about                                          *)
(***************************************************************************)
Done == vmState = "done"

\* some node is registered under the URL u
Registered(u) == \E i \in 1..Len(registry) : registry[i].URI = u

\* the URI of the call without its fragment
reqAbsoluteURI == URL(reqURI.Scheme, reqURI.Host, reqURI.Path, <<>>)

\* the fragment of the call's URI is a JSON Pointer: empty, or it starts with "/"
reqPointerOk == reqURI.Fragment = <<>> \/ reqURI.Fragment[1] = "/"

\* the call got as far as executing a schema
Executes == Registered(reqAbsoluteURI) /\ reqPointerOk

\* the documents whose root is the node the call executes: the last document
\* registered under the call's URI
reqDocs ==
    { k \in 1..Len(roots) :
        /\ registry[roots[k] + 1].URI = reqAbsoluteURI
        /\ \A j \in 1..Len(roots) : registry[roots[j] + 1].URI = reqAbsoluteURI => j <= k }

\* the call executes a document for which P holds
ReqDocIs(P(_)) == Executes /\ \E k \in reqDocs : P(schemas[k])

IsSelfRef(d) == d.ref = JStr(<<"#">>)
IsCyclicAllOf(d) == d.ref = NoKey /\ d.items = NoKey /\ d.allOf = JArr(<<LNull, LSelf>>)
IsTypedCyclicAllOf(d) == IsCyclicAllOf(d) /\ d.type = Str1("boolean")

ParseErrors ==
    { "IDNotString", "IDNotValidURI", "RefNotString", "InvalidURI",
      "RefFragmentNotPointer", "InvalidTypeValue", "SchemaNotObject",
      "InvalidArrayValue" }

\* the compile failed while parsing (its last document)
ParseFailed == build = "failed" /\ buildErr \in ParseErrors

\* the seal pass has run
SealDone == build = "sealed" \/ (build = "failed" /\ buildErr = "MissingURIs")

\* the target of a node's $ref, fragment removed
Target(entry) ==
    URL(entry.Schema.Ref.URI.Scheme, entry.Schema.Ref.URI.Host, entry.Schema.Ref.URI.Path, <<>>)

\* the node has a $ref whose target is not registered
IsDangling(entry) == entry.Schema.Ref.IsSet /\ ~Registered(Target(entry))

\* the dangling nodes, in insertion order
DanglingNodes == SelectSeq(registry, IsDangling)

ExURL(path) == URL("http", "example.com", path, <<>>)

(***************************************************************************)
(* C5  Sealing fails iff some node has a $ref whose target, fragment       *)
(* removed, is not registered; the failure carries exactly these targets,  *)
(* fragment removed, in the insertion order of the referencing nodes.      *)
(***************************************************************************)
C5_SealMissing ==
    SealDone =>
        /\ (build = "failed") <=> (\E i \in 1..Len(registry) : IsDangling(registry[i]))
        /\ missingURIs = [k \in 1..Len(DanglingNodes) |-> Target(DanglingNodes[k])]

\* the parent's missing target comes after those of its three items children
C5_Witness ==
    /\ build = "failed"
    /\ buildErr = "MissingURIs"
    /\ Len(schemas) = 1
    /\ missingURIs = <<ExURL("/2"), ExURL("/3"), ExURL("/4"), ExURL("/1")>>

TypeNames ==
    { <<"null">>, <<"boolean">>, <<"number">>, <<"integer">>, <<"string">>,
      <<"array">>, <<"object">> }

IsTypeName(v) == v.k = "string" /\ v.s \in TypeNames

BadType(t) ==
    /\ t # NoKey
    /\ ~IsTypeName(t)
    /\ ~(t.k = "array" /\ \A i \in 1..Len(t.a) : IsTypeName(t.a[i]))

\* a schema array with an element that is no object
BadElements(v) == v.k = "array" /\ \E i \in 1..Len(v.a) : v.a[i].k # "object"

BadItems(v) == v # NoKey /\ (v.k \notin {"object", "array"} \/ BadElements(v))

\* the sub-schemas of a schema-valued or schema-array-valued keyword
Children(v) ==
    IF v.k = "object" THEN {v}
    ELSE IF v.k = "array" THEN { v.a[i] : i \in { j \in 1..Len(v.a) : v.a[j].k = "object" } }
    ELSE {}

\* d, or a schema nested in d, has a malformed type or items
RECURSIVE BadTypeOrItems(_)
BadTypeOrItems(d) ==
    \/ BadType(d.type)
    \/ BadItems(d.items)
    \/ \E c \in Children(d.items) \cup Children(d.allOf) : BadTypeOrItems(c)

\* the keywords of d other than type and items: a malformed value in d or in
\* a schema nested in d ($id counts in the root only)
RECURSIVE BadOther(_, _)
BadOther(d, isRoot) ==
    \/ isRoot /\ d.id # NoKey /\ (d.id.k # "string" \/ ~UrlParse(d.id.s).ok)
    \/ d.ref # NoKey /\ (d.ref.k # "string" \/ ~UrlParse(d.ref.s).ok
                         \/ ~PtrNew(UrlParse(d.ref.s).url.Fragment).ok)
    \/ d.allOf # NoKey /\ (d.allOf.k # "array" \/ BadElements(d.allOf))
    \/ \E c \in Children(d.items) \cup Children(d.allOf) : BadOther(c, FALSE)

C7_WitnessGood ==
    /\ build = "sealed"
    /\ schemas = <<Doc(NoKey, NoKey, NoKey, JArr(<<>>), NoKey), LEmpty>>

(***************************************************************************)
(* C8  As claimed: ValidateURI returns the no-such-schema error, with no   *)
(* violation recorded, exactly when the URI without its fragment is not    *)
(* registered; for a registered URI it returns no error.                   *)
(***************************************************************************)
C8_Original ==
    Done =>
        /\ (vmErr = "ErrNoSuchSchema" /\ errors = <<>>) <=> ~Registered(reqAbsoluteURI)
        /\ Registered(reqAbsoluteURI) => vmErr = ""

(***************************************************************************)
(* C8  As amended: ValidateURI returns the no-such-schema error, with no   *)
(* violation recorded, exactly when the URI without its fragment is not    *)
(* registered.  For a registered URI the call fails only if the fragment   *)
(* is no JSON Pointer or if the depth ceiling is hit; otherwise it returns *)
(* no error, and what it executes is the schema registered under that URI. *)
(***************************************************************************)
C8_NoSuchSchema ==
    /\ Done =>
        /\ (vmErr = "ErrNoSuchSchema" /\ errors = <<>>) <=> ~Registered(reqAbsoluteURI)
        /\ vmErr = "ErrInvalidPointer" <=> (Registered(reqAbsoluteURI) /\ ~reqPointerOk)
        /\ vmErr \in {"", "ErrNoSuchSchema", "ErrInvalidPointer", "ErrStackOverflow"}
    /\ vmState = "running" =>
        /\ Executes
        /\ registry[frames[1].schema + 1].URI = reqAbsoluteURI
        /\ frames[1].instance = reqInstance

\* both outcomes: an unregistered URI, and a registered one with a fragment
C8_Witness ==
    /\ Done
    /\ vmErr = "ErrNoSuchSchema"
    /\ reqURI # reqAbsoluteURI
    /\ Registered(ExURL("/foo"))

C8_WitnessRegistered ==
    /\ Done
    /\ vmErr = ""
    /\ reqURI # reqAbsoluteURI
    /\ Registered(reqAbsoluteURI)
    /\ errors # <<>>

(***************************************************************************)
(* C9  For a schema whose type is "integer" and every instance: no error   *)
(* is reported iff the instance is a number equal to its own rounding,     *)
(* whatever its sign; the boolean validator's integer test agrees.         *)
(***************************************************************************)
IsIntegerSchema(d) ==
    d.type = Str1("integer") /\ d.ref = NoKey /\ d.items = NoKey /\ d.allOf = NoKey

\* a number counted in halves is whole
IsWhole(instance) == instance.k = "number" /\ instance.n % 2 = 0

C9_IntegerType ==
    (Done /\ ReqDocIs(IsIntegerSchema) /\ vmErr = "")
    => /\ errors = <<>> <=> IsWhole(reqInstance)
       /\ assertSimpleType("integer", reqInstance) <=> IsWhole(reqInstance)

\* -1.5 is rejected, -1.0 is accepted
C9_Witness ==
    /\ Done
    /\ ReqDocIs(IsIntegerSchema)
    /\ reqInstance = INum(-3)
    /\ Len(errors) = 1

C9_WitnessWhole ==
    /\ Done
    /\ ReqDocIs(IsIntegerSchema)
    /\ reqInstance = INum(-2)
    /\ vmErr = ""
    /\ errors = <<>>

(***************************************************************************)
(* C10  The type check of a schema with a type set.                        *)
(***************************************************************************)
\* the runtime tag of an instance
TagOf(instance) ==
    CASE instance.k = "null" -> jsonTypeNull
      [] instance.k = "bool" -> jsonTypeBoolean
      [] instance.k = "number" -> jsonTypeNumber
      [] instance.k = "string" -> jsonTypeString
      [] instance.k = "array" -> jsonTypeArray
      [] instance.k = "object" -> jsonTypeObject

InTypes(schema, typ) == \E i \in 1..Len(schema.Type.Types) : schema.Type.Types[i] = typ

\* the type check is about to run on a schema with a type set
AtTypeCheck == Running("type") /\ TopSchema.Type.IsSet

\* the one error the type check records
TypeError ==
    [InstancePath |-> stack.instance,
     SchemaPath |-> Append(stack.schemas[Len(stack.schemas)].tokens, "type"),
     URI |-> stack.schemas[Len(stack.schemas)].id]

(***************************************************************************)
(* C10  As claimed: if the instance's runtime tag is in the type set no    *)
(* error is recorded, otherwise exactly one error is recorded, with the    *)
(* current schema path followed by "type" and the current instance path.   *)
(***************************************************************************)
C10_Original ==
    [][AtTypeCheck =>
          IF InTypes(TopSchema, TagOf(Top.instance))
          THEN errors' = errors
          ELSE errors' = Append(errors, TypeError)]_vars

(***************************************************************************)
(* C10  As amended: if the instance's runtime tag is in the type set, or   *)
(* the instance is a number equal to its own rounding and integer is in    *)
(* the set, no error is recorded; otherwise exactly one error is recorded, *)
(* with the current schema path followed by "type" and the current         *)
(* instance path.                                                          *)
(***************************************************************************)
C10_TypeCheck ==
    [][AtTypeCheck =>
          IF \/ InTypes(TopSchema, TagOf(Top.instance))
             \/ IsWhole(Top.instance) /\ InTypes(TopSchema, jsonTypeInteger)
          THEN errors' = errors
          ELSE errors' = Append(errors, TypeError)]_vars

\* type [null, integer], instance "x": one error at schema path [type],
\* instance path []
C10_Witness ==
    /\ Done
    /\ schemas = <<LNullInteger>>
    /\ reqInstance = IStr
    /\ errors = <<[InstancePath |-> <<>>, SchemaPath |-> <<"type">>, URI |-> EmptyURL]>>

\* type [integer, string], instance 1.0: no error
C10_WitnessWhole ==
    /\ Done
    /\ schemas = <<Leaf(NoKey, JArr(<<Str1("integer"), Str1("string")>>))>>
    /\ reqInstance = INum(2)
    /\ reqURI = EmptyURL
    /\ errors = <<>>

(***************************************************************************)
(* C11  items on an array instance, for a call on a document root: element *)
(* k is run against the single items sub-schema or, in tuple mode and for  *)
(* k below the tuple length, against the tuple's k-th sub-schema; an error *)
(* of the element's type check has instance path [k] and schema path       *)
(* [items, type] or [items, k, type]; no element at or beyond the tuple    *)
(* length is run.                                                          *)
(***************************************************************************)
\* the root's items loop is running element frames[1].i
AtRootElement ==
    /\ vmState = "running"
    /\ Len(frames) = 2
    /\ frames[1].pc = "itemsRet"
    /\ reqURI.Fragment = <<>>

\* the schema path the claim gives to an error of element k
ItemsPrefix(parent, k) ==
    IF parent.Items.IsSingle THEN <<"items">> ELSE <<"items", FormatInt(k)>>

C11_Scenario ==
    (Done /\ schemas = <<Doc(NoKey, NoKey, NoKey, LNull, NoKey)>>
          /\ reqURI = EmptyURL /\ reqInstance = IArr(<<INull, INum(2)>>)
          /\ config.MaxErrors = DefaultMaxErrors)
    => errors = <<[InstancePath |-> <<"1">>,
                   SchemaPath |-> <<"items", "type">>,
                   URI |-> EmptyURL]>>

(***************************************************************************)
(* C12  A pattern that is not a string or does not compile is rejected     *)
(* when the schema is compiled, and no validation call on a validator that *)
(* was built panics.                                                       *)
(***************************************************************************)
PatternOk(d) ==
    \/ d.pattern.k = "absent"
    \/ d.pattern.k = "string" /\ regexpCompile(d.pattern.s).ok

C12_PatternAtCompile ==
    /\ build = "sealed" => \A k \in 1..Len(schemas) : PatternOk(schemas[k])
    /\ valid # "panic"

\* the two halves of C12 on their own
C12_Rejected == build = "sealed" => \A k \in 1..Len(schemas) : PatternOk(schemas[k])
C12_NoPanic == valid # "panic"

Parsed == build = "parsing" /\ next' = next + 1 /\ build' = "parsing"

\* the Go indices of the nodes the parse inserted
Inserted == Len(registry)..(Len(registry') - 1)

C14_PostOrder ==
    [][Parsed =>
          /\ Len(registry') > Len(registry)
          /\ registry'[Len(registry')].URI.Fragment = <<>>
          /\ registry'[Len(registry')].Schema = parseRootSchema(registry, schemas[next']).schema
          /\ \A i \in Inserted :
                LET children == GetIndex(registry', i).Items.Schemas
                IN  /\ i < Len(registry') - 1 => registry'[i + 1].URI.Fragment # <<>>
                    /\ \A j \in 1..Len(children) :
                          /\ children[j] \in Inserted
                          /\ children[j] < i
                          /\ j > 1 => children[j - 1] < children[j]]_vars

\* a parsed document with a tuple of two leaves: children 0 and 1, root 2
C14_Witness ==
    /\ next = 1
    /\ build = "parsing"
    /\ Len(registry) = 3
    /\ GetIndex(registry, 2).Items.Schemas = <<0, 1>>

(***************************************************************************)
(* C15  Path-stack discipline: when execSchema returns, the instance path  *)
(* stack and the token list of the current schema-stack entry are what     *)
(* they were when it was entered.                                          *)
(***************************************************************************)
\* the instance path at the entry of the call at level n of the call stack:
\* the caller's, extended by what the caller pushed for the call
RECURSIVE EntryInstance(_)
EntryInstance(n) ==
    IF n = 1 THEN <<>>
    ELSE IF frames[n - 1].pc = "itemsRet"
    THEN Append(EntryInstance(n - 1), FormatInt(frames[n - 1].i))
    ELSE EntryInstance(n - 1)

\* the token list of the current schema-stack entry at the entry of the call
\* at level n
RECURSIVE EntryTokens(_)
EntryTokens(n) ==
    IF n = 1 THEN PtrNew(reqURI.Fragment).Tokens
    ELSE LET caller == frames[n - 1]
             k == FormatInt(caller.i)
         IN  CASE caller.pc = "refRet" -> <<>>
               [] caller.pc = "allOfRet" -> EntryTokens(n - 1) \o <<"allOf", k>>
               [] caller.pc = "itemsRet" ->
                     IF GetIndex(registry, caller.schema).Items.IsSingle
                     THEN EntryTokens(n - 1) \o <<"items">>
                     ELSE EntryTokens(n - 1) \o <<"items", k>>

C15_PathDiscipline ==
    Running("return") =>
        /\ stack.instance = EntryInstance(Len(frames))
        /\ stack.schemas[Len(stack.schemas)].tokens = EntryTokens(Len(frames))

\* the half of C15 about the instance path
C15_InstancePath == Running("return") => stack.instance = EntryInstance(Len(frames))

(***************************************************************************)
(* C16  Following a $ref opens a new schema-stack entry tagged with the    *)
(* target schema's id and an empty token list and keeps the instance path, *)
(* so at every recursion level of {allOf: [{type: null}, {$ref: "#"}]}     *)
(* with instance true the error has schema path [allOf, 0, type] and       *)
(* instance path [].                                                       *)
(***************************************************************************)
\* the $ref of the current schema is about to be followed
AtRef == Running("ref") /\ TopSchema.Ref.IsSet /\ ~depthReached(stack)

\* following a $ref pushes [target's id, no tokens] and keeps the instance path
C16_NewEntry ==
    [][AtRef =>
          /\ stack'.schemas = Append(stack.schemas,
                                     [id |-> registry[TopSchema.Ref.Schema + 1].URI,
                                      tokens |-> <<>>])
          /\ stack'.instance = stack.instance
          /\ frames'[Len(frames')].schema = TopSchema.Ref.Schema]_vars

\* every error of the cyclic schema is the one of its first allOf member
C16_RelativePath ==
    (ReqDocIs(IsCyclicAllOf) /\ schemas[1].type = NoKey
        /\ reqURI.Fragment = <<>> /\ reqInstance = ITrue)
    => \A i \in 1..Len(errors) :
          /\ errors[i].SchemaPath = <<"allOf", "0", "type">>
          /\ errors[i].InstancePath = <<>>

C16_RefPaths == C16_NewEntry /\ []C16_RelativePath

(***************************************************************************)
(* C17  Base-URI inheritance: when the items sub-schema of a document      *)
(* carries $id, the $id resolved against the root's base URI is the base   *)
(* of the sub-schema's self-URI and of the target of its relative $ref.    *)
(***************************************************************************)
HasNestedID(d) == d.items.k = "object" /\ d.items.id.k = "string"

\* the base URI of the document root
RootBase(d) == IF d.id = NoKey THEN EmptyURL ELSE UrlParse(d.id.s).url

\* the nested $id resolved against the enclosing base URI
NestedBase(d) == StripFragment(UrlParseRef(RootBase(d), d.items.id.s).url)

\* the one document of the build has been parsed; its items node is node 0
ParsedNested == Len(schemas) = 1 /\ roots # <<>> /\ HasNestedID(schemas[1])

C17_NestedID ==
    ParsedNested =>
        LET d == schemas[1]
            node == registry[1]
        IN  /\ StripFragment(node.URI) = NestedBase(d)
            /\ d.items.ref.k = "string" =>
                  node.Schema.Ref.URI = UrlParseRef(NestedBase(d), d.items.ref.s).url

\* the half of C17 about the self-URI, and the half about the $ref target
C17_SelfURI == ParsedNested => StripFragment(registry[1].URI) = NestedBase(schemas[1])
C17_RefTarget ==
    (ParsedNested /\ schemas[1].items.ref.k = "string") =>
        registry[1].Schema.Ref.URI
            = UrlParseRef(NestedBase(schemas[1]), schemas[1].items.ref.s).url

(***************************************************************************)
(* C18  ValidateURI with a URI whose fragment points to the items          *)
(* sub-schema of a registered document validates the instance against the  *)
(* sub-schema, not against the document root: when the sub-schema has only *)
(* a type, the result is empty iff the instance passes that type check.    *)
(***************************************************************************)
\* the node registered under the URI of the call, fragment included
reqNode == GetIndex(registry, Lookup(registry, reqURI))

IsTypeOnly(schema) ==
    schema.Type.IsSet /\ ~schema.Ref.IsSet /\ ~schema.Items.IsSet /\ ~schema.AllOf.IsSet

\* a call on <id>#/items has returned a result, and #/items has only a type
SubSchemaCall ==
    /\ Done
    /\ vmErr = ""
    /\ reqURI.Fragment = <<"/", "items">>
    /\ Lookup(registry, reqURI) # -1
    /\ IsTypeOnly(reqNode)

C18_SubSchema ==
    SubSchemaCall => (errors = <<>> <=> ~typeFails(reqNode, reqInstance))

(***************************************************************************)
(* C19  A schema with no type keyword never produces a type error: the     *)
(* type check of a schema without type records nothing, so the result of   *)
(* the empty schema {} is empty for every instance.                        *)
(***************************************************************************)
C19_NoType ==
    [][(Running("type") /\ ~TopSchema.Type.IsSet) => errors' = errors]_vars

\* the empty schema accepts every instance
C19_EmptySchema ==
    (Done /\ schemas = <<LEmpty>> /\ vmErr = "") => errors = <<>>

====
